---- MODULE Spec2Model ----
(***************************************************************************)
(* Graph algorithms of src/graph/util.rs: the lazy depth-first iterator,   *)
(* Dijkstra, Floyd-Warshall, the Euler path and Kruskal's spanning tree.   *)
(* Vectors are sequences; vertex and edge indices are 0-based as in the    *)
(* source, so element i of a vector s is s[i + 1].                         *)
(***************************************************************************)
EXTENDS Integers, Sequences, FiniteSets, TLC

VARIABLES
    num_v,          \* Graph: number of vertices
    edges,          \* Graph: edges[e + 1] = <<source, dest>> of edge e
    edge_weights,   \* Graph: edge_weights[e + 1] = weight of edge e
    pc,             \* "init", then "iter" (a live DfsIterator) or "done"
    arg,            \* the argument of the call made (root, source, start)
    ret,            \* the value the last call returned
    visited,        \* DfsIterator.visited
    stack,          \* DfsIterator.stack
    adj_iters,      \* DfsIterator.adj_iters: entries consumed per vertex
    emitted,        \* history: the Some((e, v)) results so far, with the stack top
    scanned         \* history: the adjacency entries next() has taken so far

vars == <<num_v, edges, edge_weights, pc, arg, ret, visited, stack, adj_iters, emitted, scanned>>

\* ------------------------------------------------------------------ bounds
DfsMaxV == 3
DfsMaxE == 3
FairMaxV == 3
FairMaxE == 2
DijMaxV == 3
DijMaxE == 3
DijMaxW == 2
FwMaxV == 3
FwMaxE == 3
FwMaxW == 2
FwMinW == 1
EulerMaxV == 3
EulerMaxE == 4
MstMaxV == 3
MstMaxE == 2
MstMaxW == 2

\* u64::max_value() and i64::MAX, the "infinity" of the distance vectors.
\* TLC's integers are 32 bits wide, so both stand at the largest of them; no
\* sum the algorithms form within the bounds comes near it.
U64_MAX == 2147483647
I64_MAX == 2147483647

\* ------------------------------------------------------------------ values
\* What a call returned: Option and panic as tagged records.
None == [tag |-> "None", val |-> <<>>]

Some(x) == [tag |-> "Some", val |-> x]

NotCalled == [tag |-> "NotCalled", val |-> <<>>]

Panic == [tag |-> "Panic", val |-> <<>>]

Ok(x) == [tag |-> "Ok", val |-> x]

IsNone(r) == r.tag = "None"

At(s, i) == s[i + 1]

Last(s) == s[Len(s)]

Front(s) == SubSeq(s, 1, Len(s) - 1)

Reverse(s) == [i \in 1..Len(s) |-> s[Len(s) + 1 - i]]

Range(s) == {s[i] : i \in 1..Len(s)}

NoDup(s) == \A i, j \in 1..Len(s) : s[i] = s[j] => i = j

Vertices == 0..(num_v - 1)

EdgeIds == 0..(Len(edges) - 1)

\* ------------------------------------------------------------------ graph
\* Graph::new(vmax, emax_hint): vmax isolated vertices, no edge.
GraphNew(maxV) ==
    /\ num_v \in 1..maxV
    /\ edges = <<>>
    /\ edge_weights = <<>>
    /\ pc = "init"
    /\ arg = -1
    /\ ret = NotCalled

\* add_weighted_edge(u, v, weight): the edge gets the next edge index.
\* (add_edge(u, v) is the case weight = 1.)
AddWeightedEdge(maxE, W) ==
    /\ pc = "init"
    /\ Len(edges) < maxE
    /\ \E u \in Vertices, v \in Vertices, w \in W :
        /\ edges' = Append(edges, <<u, v>>)
        /\ edge_weights' = Append(edge_weights, w)
    /\ UNCHANGED <<num_v, pc, arg, ret, visited, stack, adj_iters, emitted, scanned>>

IdleIterator ==
    /\ visited = <<>>
    /\ stack = <<>>
    /\ adj_iters = <<>>
    /\ emitted = <<>>
    /\ scanned = <<>>

graphVars == <<num_v, edges, edge_weights>>

iterVars == <<visited, stack, adj_iters, emitted, scanned>>

\* adj_list(u) of a directed graph: the (edge index, destination) pairs of
\* the edges leaving u, in insertion order.
AdjList(u) ==
    LET F[i \in 0..Len(edges)] ==
            IF i = 0 THEN <<>>
            ELSE IF edges[i][1] = u
                 THEN Append(F[i - 1], <<i - 1, edges[i][2]>>)
                 ELSE F[i - 1]
    IN  F[Len(edges)]

\* ------------------------------------------------------------------ dfs
\* dfs(root): the iterator's initial state.
DfsNewMut(root) ==
    [visited   |-> [v \in Vertices |-> FALSE],
     stack     |-> <<root>>,
     adj_iters |-> [v \in Vertices |-> 0],
     scanned   |-> <<>>,
     ret       |-> NotCalled]

DfsNew(root) ==
    [visited   |-> [v \in Vertices |-> v = root],
     stack     |-> <<root>>,
     adj_iters |-> [v \in Vertices |-> 0],
     scanned   |-> <<>>,
     ret       |-> NotCalled]

\* adj_iters[u].next(): the cursor of u moves one entry on.
Advance(it, u, e) ==
    [it EXCEPT !.adj_iters[u] = @ + 1, !.scanned = Append(@, e)]

\* The body of the if: mark v, push it, return Some((e, v)).
DiscoverMut(it, e, v) ==
    [it EXCEPT !.stack = Append(@, v), !.ret = Some(<<e, v>>)]

Discover(it, e, v) ==
    [it EXCEPT !.visited[v] = TRUE, !.stack = Append(@, v), !.ret = Some(<<e, v>>)]

\* for (e, v) in self.adj_iters[u].by_ref() { ... }: ret stays None when the
\* adjacency of u runs out.
RECURSIVE DfsScan(_, _)
DfsScan(it, u) ==
    IF it.adj_iters[u] >= Len(AdjList(u))
    THEN [it EXCEPT !.ret = None]
    ELSE LET ev == At(AdjList(u), it.adj_iters[u])
             it1 == Advance(it, u, ev[1])
         IN  IF ~it1.visited[ev[2]]
             THEN Discover(it1, ev[1], ev[2])
             ELSE DfsScan(it1, u)

\* self.stack.pop() after the scan of the top vertex found nothing.
PopMut(it) ==
    LET rest == Front(it.stack)
    IN  IF rest = <<>> THEN [it EXCEPT !.stack = rest]
        ELSE [it EXCEPT !.stack = rest, !.adj_iters[Last(rest)] = 0]

Pop(it) == [it EXCEPT !.stack = Front(@)]

\* DfsIterator::next: one whole call.
RECURSIVE DfsIterNext(_)
DfsIterNext(it) ==
    IF it.stack = <<>>
    THEN [it EXCEPT !.ret = None]
    ELSE LET got == DfsScan(it, Last(it.stack))
         IN  IF ~IsNone(got.ret) THEN got ELSE DfsIterNext(Pop(got))

Iter == [visited |-> visited, stack |-> stack, adj_iters |-> adj_iters,
         scanned |-> scanned, ret |-> ret]

SetIter(it) ==
    /\ visited' = it.visited
    /\ stack' = it.stack
    /\ adj_iters' = it.adj_iters
    /\ scanned' = it.scanned
    /\ ret' = it.ret

InitDfs == GraphNew(DfsMaxV) /\ IdleIterator

DfsAddEdge == AddWeightedEdge(DfsMaxE, {1})

Dfs ==
    /\ pc = "init"
    /\ \E root \in Vertices :
        /\ arg' = root
        /\ SetIter(DfsNew(root))
    /\ pc' = "iter"
    /\ emitted' = <<>>
    /\ UNCHANGED graphVars

DfsNext ==
    /\ pc = "iter"
    /\ \E it \in {DfsIterNext(Iter)} :
           /\ SetIter(it)
           /\ emitted' = IF IsNone(it.ret) THEN emitted
                         ELSE Append(emitted, <<it.ret.val[1], it.ret.val[2],
                                                 it.stack[Len(it.stack) - 1]>>)
    /\ UNCHANGED <<graphVars, pc, arg>>

NextDfs == DfsAddEdge \/ Dfs \/ DfsNext

SpecDfs == InitDfs /\ [][NextDfs]_vars

\* The same machine over the graphs of the liveness bounds, with a caller
\* that keeps calling next().
InitDfsFair == GraphNew(FairMaxV) /\ IdleIterator

FairAddEdge == AddWeightedEdge(FairMaxE, {1})

NextDfsFair == FairAddEdge \/ Dfs \/ DfsNext

SpecDfsFair == InitDfsFair /\ [][NextDfsFair]_vars /\ WF_vars(DfsNext)

\* ------------------------------------------------------------------ dijkstra
\* `as u64` of an i64 weight: a negative weight wraps to the top of the range.
AsU64(w) == IF w >= 0 THEN w ELSE (U64_MAX + w) + 1

\* BinaryHeap<(Reverse<u64>, usize)>: the heap as the list of its entries
\* <<d, v>>; pop() takes the greatest (Reverse(d), v): the least d and, among
\* equal d, the greatest v.
HeapBefore(a, b) == a[1] < b[1] \/ (a[1] = b[1] /\ a[2] >= b[2])

HeapTop(heap) == CHOOSE i \in 1..Len(heap) : \A j \in 1..Len(heap) : HeapBefore(heap[i], heap[j])

RemoveAt(s, i) == SubSeq(s, 1, i - 1) \o SubSeq(s, i + 1, Len(s))

\* let mut dist = vec![u64::max_value(); self.edge_weights.len()]
DistNew == [i \in 1..Len(edge_weights) |-> U64_MAX]

\* heap.push((Reverse(0), 0)): the vertex pushed is 0, whatever the source u.
HeapNew(u) == <<<<0, 0>>>>

\* The for loop over adj_list(u), from its entry i on. st is Panic once an
\* index was out of range. (No sum reaches the width of u64 within the bounds.)
RECURSIVE Relax(_, _, _, _)
Relax(st, u, dist_u, i) ==
    IF st.tag = "Panic" \/ i >= Len(AdjList(u)) THEN st
    ELSE LET e == At(AdjList(u), i)[1]
             v == At(AdjList(u), i)[2]
             dist_v == dist_u + AsU64(At(edge_weights, e))
         IN  IF v >= Len(st.dist) THEN [st EXCEPT !.tag = "Panic"]
             ELSE IF At(st.dist, v) > dist_v
                  THEN Relax([st EXCEPT !.dist[v + 1] = dist_v,
                                        !.heap = Append(@, <<dist_v, v>>)],
                             u, dist_u, i + 1)
                  ELSE Relax(st, u, dist_u, i + 1)

\* while let Some((Reverse(dist_u), u)) = heap.pop() { ... }
RECURSIVE DijkstraLoop(_)
DijkstraLoop(st) ==
    IF st.tag = "Panic" \/ st.heap = <<>> THEN st
    ELSE LET top == HeapTop(st.heap)
             dist_u == st.heap[top][1]
             u == st.heap[top][2]
             popped == [st EXCEPT !.heap = RemoveAt(@, top)]
         IN  IF u >= Len(st.dist) THEN [st EXCEPT !.tag = "Panic"]
             ELSE IF At(st.dist, u) = dist_u
                  THEN DijkstraLoop(Relax(popped, u, dist_u, 0))
                  ELSE DijkstraLoop(popped)

\* dijkstra(u): the distance vector, or Panic at an index out of range.
DijkstraOf(u) ==
    IF u >= Len(DistNew) THEN Panic
    ELSE LET st == DijkstraLoop([tag |-> "Ok",
                                 dist |-> [DistNew EXCEPT ![u + 1] = 0],
                                 heap |-> HeapNew(u)])
         IN  IF st.tag = "Panic" THEN Panic ELSE Ok(st.dist)

InitDijkstra == GraphNew(DijMaxV) /\ IdleIterator

DijAddEdge == AddWeightedEdge(DijMaxE, 0..DijMaxW)

Dijkstra ==
    /\ pc = "init"
    /\ \E u \in Vertices :
        /\ arg' = u
        /\ ret' = DijkstraOf(u)
    /\ pc' = "done"
    /\ UNCHANGED <<graphVars, iterVars>>

NextDijkstra == DijAddEdge \/ Dijkstra

SpecDijkstra == InitDijkstra /\ [][NextDijkstra]_vars

\* ------------------------------------------------------------------ floyd_warshall
\* The first two loops: the diagonal set to 0, then every edge written over
\* the entry of its endpoints, in edge order.
FwSeed ==
    LET F[n \in 0..Len(edges)] ==
            IF n = 0
            THEN [i \in Vertices |-> [j \in Vertices |-> IF i = j THEN 0 ELSE I64_MAX]]
            ELSE [F[n - 1] EXCEPT ![edges[n][1]][edges[n][2]] = edge_weights[n]]
    IN  F[Len(edges)]

\* The body of the triple loop at (k, i, j).
FwRelax(dist, k, i, j) ==
    IF dist[i][k] < I64_MAX /\ dist[k][j] < I64_MAX /\ dist[i][j] > dist[i][k] + dist[k][j]
    THEN [dist EXCEPT ![i][j] = dist[i][k] + dist[k][j]]
    ELSE dist

\* Each iteration works on the matrix the one before it left: Settled(d) is
\* TRUE and has TLC compute d before the loop goes on.
Settled(d) == DOMAIN d = Vertices

\* for j in 0..numv, from j on
RECURSIVE FwLoopJ(_, _, _, _)
FwLoopJ(dist, k, i, j) ==
    IF j >= num_v THEN dist
    ELSE LET d == FwRelax(dist, k, i, j)
         IN  IF Settled(d) THEN FwLoopJ(d, k, i, j + 1) ELSE d

\* for i in 0..numv, from i on
RECURSIVE FwLoopI(_, _, _)
FwLoopI(dist, k, i) ==
    IF i >= num_v THEN dist
    ELSE LET d == FwLoopJ(dist, k, i, 0)
         IN  IF Settled(d) THEN FwLoopI(d, k, i + 1) ELSE d

\* for k in 0..numv, from k on
RECURSIVE FwLoopK(_, _)
FwLoopK(dist, k) ==
    IF k >= num_v THEN dist
    ELSE LET d == FwLoopI(dist, k, 0)
         IN  IF Settled(d) THEN FwLoopK(d, k + 1) ELSE d

FloydWarshallOf == Ok(FwLoopK(FwSeed, 0))

InitFw == GraphNew(FwMaxV) /\ IdleIterator

FwAddEdge == AddWeightedEdge(FwMaxE, (0 - FwMinW)..FwMaxW)

FloydWarshall ==
    /\ pc = "init"
    /\ arg' = 0
    /\ ret' = FloydWarshallOf
    /\ pc' = "done"
    /\ UNCHANGED <<graphVars, iterVars>>

NextFw == FwAddEdge \/ FloydWarshall

SpecFw == InitFw /\ [][NextFw]_vars

\* ------------------------------------------------------------------ euler_path
\* euler_recurse(u, adj, edges): st.adj are the shared cursors (entries
\* consumed per vertex), st.edges the edges pushed so far.
RECURSIVE EulerRecurse(_, _)
EulerRecurse(st, u) ==
    IF st.adj[u] >= Len(AdjList(u)) THEN st
    ELSE LET ev == At(AdjList(u), st.adj[u])
             taken == [st EXCEPT !.adj[u] = @ + 1]
             back == EulerRecurse(taken, ev[2])
         IN  EulerRecurse([back EXCEPT !.edges = Append(@, ev[1])], u)

EulerPathNoReverse(u) ==
    Ok(EulerRecurse([adj |-> [v \in Vertices |-> 0], edges |-> <<>>], u).edges)

\* euler_path(u)
EulerPathOf(u) ==
    Ok(Reverse(EulerRecurse([adj |-> [v \in Vertices |-> 0], edges |-> <<>>], u).edges))

InitEuler == GraphNew(EulerMaxV) /\ IdleIterator

EulerAddEdge == AddWeightedEdge(EulerMaxE, {1})

EulerPath ==
    /\ pc = "init"
    /\ \E u \in Vertices :
        /\ arg' = u
        /\ ret' = EulerPathOf(u)
    /\ pc' = "done"
    /\ UNCHANGED <<graphVars, iterVars>>

NextEuler == EulerAddEdge \/ EulerPath

SpecEuler == InitEuler /\ [][NextEuler]_vars

\* C5: when the graph has an Euler path from start, euler_path(start) holds
\* every edge exactly once, its first edge leaves start and each edge ends
\* where the next begins.
RECURSIVE EulerWalk(_, _)
EulerWalk(u, unused) ==
    \/ unused = {}
    \/ \E e \in unused : At(edges, e)[1] = u /\ EulerWalk(At(edges, e)[2], unused \ {e})

HasEulerPath(start) == EulerWalk(start, EdgeIds)

C5_EulerPath ==
    (pc = "done" /\ HasEulerPath(arg)) =>
        /\ Len(ret.val) = Len(edges)
        /\ Range(ret.val) = EdgeIds
        /\ ret.val # <<>> => At(edges, ret.val[1])[1] = arg
        /\ \A i \in 1..(Len(ret.val) - 1) :
              At(edges, ret.val[i])[2] = At(edges, ret.val[i + 1])[1]

\* An Euler path that is not the edges in the order the first walk meets
\* them: the walk ran into a dead end and the rest was spliced in.
C5_Witness ==
    /\ pc = "done"
    /\ HasEulerPath(arg)
    /\ Len(edges) = 4
    /\ num_v = 3
    /\ \E i \in 1..3 : At(edges, ret.val[i])[2] # At(edges, ret.val[i + 1])[2]
    /\ \E i \in 1..3 : ret.val[i] > ret.val[i + 1]

\* ------------------------------------------------------------------ min_spanning_tree
\* DisjointSets::new(n): every vertex its own parent.
DisjointSetsNew == [v \in Vertices |-> v]

RECURSIVE Find(_, _)
Find(parent, x) == IF parent[x] = x THEN x ELSE Find(parent, parent[x])

\* DisjointSets::merge(a, b): <<the sets after it, whether a and b were apart>>
Merge(parent, a, b) ==
    LET ra == Find(parent, a)
        rb == Find(parent, b)
    IN  IF ra = rb THEN <<parent, FALSE>> ELSE <<[parent EXCEPT ![ra] = rb], TRUE>>

\* The orders sort_unstable_by_key(|&e| edge_weights[e]) may leave the edge
\* indices in: ascending weight, equal weights in any order.
SortedOrders ==
    {p \in [1..Len(edges) -> EdgeIds] :
        /\ \A i, j \in 1..Len(edges) : p[i] = p[j] => i = j
        /\ \A i \in 1..(Len(edges) - 1) : At(edge_weights, p[i]) <= At(edge_weights, p[i + 1])}

\* .filter(|&e| components.merge(u, v)).collect() over order[i..], u and v
\* the two endpoints stored for edge e.
RECURSIVE KruskalFilter(_, _, _, _)
KruskalFilter(order, i, components, kept) ==
    IF i > Len(order) THEN kept
    ELSE LET e == order[i]
             m == Merge(components, At(edges, e)[1], At(edges, e)[2])
         IN  KruskalFilter(order, i + 1, m[1], IF m[2] THEN Append(kept, e) ELSE kept)

KeepAll(order) == Ok(order)

\* min_spanning_tree() when the sort leaves the edges in `order`
MinSpanningTreeOf(order) == Ok(KruskalFilter(order, 1, DisjointSetsNew, <<>>))

InitMst == GraphNew(MstMaxV) /\ IdleIterator

MstAddEdge == AddWeightedEdge(MstMaxE, 1..MstMaxW)

MinSpanningTree ==
    /\ pc = "init"
    /\ \E order \in SortedOrders : ret' = MinSpanningTreeOf(order)
    /\ arg' = 0
    /\ pc' = "done"
    /\ UNCHANGED <<graphVars, iterVars>>

NextMst == MstAddEdge \/ MinSpanningTree

SpecMst == InitMst /\ [][NextMst]_vars

\* The vertices joined to those of S by the edges of F, taken both ways.
RECURSIVE UClosure(_, _)
UClosure(S, F) ==
    LET T == S \cup {At(edges, e)[2] : e \in {f \in F : At(edges, f)[1] \in S}}
               \cup {At(edges, e)[1] : e \in {f \in F : At(edges, f)[2] \in S}}
    IN  IF T = S THEN S ELSE UClosure(T, F)

NumComponents(F) == Cardinality({UClosure({v}, F) : v \in Vertices})

\* F has no cycle: no edge of F joins two vertices the rest of F joins.
Acyclic(F) ==
    \A e \in F : At(edges, e)[2] \notin UClosure({At(edges, e)[1]}, F \ {e})

\* F is a spanning forest of the graph: a cycle-free set of edges with one
\* tree per connected component, that is num_v - (components) edges.
SpanningForest(F, nc) == Cardinality(F) = num_v - nc /\ Acyclic(F)

RECURSIVE Weight(_)
Weight(F) ==
    IF F = {} THEN 0
    ELSE LET e == CHOOSE x \in F : TRUE IN At(edge_weights, e) + Weight(F \ {e})

\* C4: min_spanning_tree() returns distinct edge indices of the graph, without
\* a cycle, num_v - (number of connected components) of them, and no
\* spanning forest of the graph weighs less.
C4_MinSpanningForest ==
    pc = "done" =>
        LET nc == NumComponents(EdgeIds)
            w == Weight(Range(ret.val))
        IN  /\ NoDup(ret.val)
            /\ Range(ret.val) \subseteq EdgeIds
            /\ Acyclic(Range(ret.val))
            /\ Len(ret.val) = num_v - nc
            /\ \A F \in SUBSET EdgeIds : SpanningForest(F, nc) => w <= Weight(F)

\* Two edges between the same two vertices, the heavier one added first: the
\* lighter, scanned first, is kept and the heavier would close a cycle.
C4_Witness ==
    /\ pc = "done"
    /\ num_v = 3
    /\ Len(edges) = 2
    /\ edges[1][1] # edges[1][2]
    /\ {edges[1][1], edges[1][2]} = {edges[2][1], edges[2][2]}
    /\ edge_weights[1] > edge_weights[2]
    /\ ret.val = <<1>>

\* The order a stable sort by weight leaves the edge indices in.
StableOrder ==
    CHOOSE p \in SortedOrders :
        \A i \in 1..(Len(edges) - 1) :
            At(edge_weights, p[i]) = At(edge_weights, p[i + 1]) => p[i] < p[i + 1]

\* C9: the result is the one Kruskal's algorithm gives over the edges sorted
\* by (weight, edge index).
C9_StableResult ==
    pc = "done" => ret.val = KruskalFilter(StableOrder, 1, DisjointSetsNew, <<>>)

\* ------------------------------------------------------------------ shortest paths: claims
\* <<weight, end>> of every walk that starts at u and takes no edge twice nor
\* any edge of `used`. Without a negative cycle the lightest walk from u to v
\* is among them.
RECURSIVE WalksFrom(_, _)
WalksFrom(u, used) ==
    {<<0, u>>} \cup
    UNION {{<<At(edge_weights, e) + x[1], x[2]>> : x \in WalksFrom(At(edges, e)[2], used \cup {e})} :
           e \in {f \in EdgeIds \ used : At(edges, f)[1] = u}}

SetMin(S) == CHOOSE x \in S : \A y \in S : x <= y

\* The least total weight of a path from s to v, inf when there is none.
MinDist(s, v, inf) ==
    LET ws == {x[1] : x \in {y \in WalksFrom(s, {}) : y[2] = v}}
    IN  IF ws = {} THEN inf ELSE SetMin(ws)

NoNegativeCycle == \A s \in Vertices : \A x \in WalksFrom(s, {}) : x[2] = s => x[1] >= 0

\* C1: dijkstra(s) returns dist[s] = 0 and the least path weight from s for
\* every vertex, u64::MAX for the unreachable ones, whatever the source s.
\* (Stated on the graphs with as many edges as vertices, where the vector
\* has one entry per vertex.)
C1_DijkstraShortest ==
    (pc = "done" /\ Len(edges) = num_v) =>
        /\ ret.tag = "Ok"
        /\ At(ret.val, arg) = 0
        /\ \A v \in Vertices : At(ret.val, v) = MinDist(arg, v, U64_MAX)

\* C6: dijkstra(s) never faults on an index and returns num_v entries.
C6_DijkstraTotal ==
    pc = "done" => (ret.tag = "Ok" /\ Len(ret.val) = num_v)

\* C3: without a negative cycle floyd_warshall() returns the least path
\* weight for every pair, i64::MAX for the pairs with no path.
C3_FwShortest ==
    (pc = "done" /\ NoNegativeCycle) =>
        \A i \in Vertices : \A j \in Vertices : ret.val[i][j] = MinDist(i, j, I64_MAX)

\* C7: without a negative cycle the diagonal of the matrix is 0.
C7_FwDiagonal ==
    (pc = "done" /\ NoNegativeCycle) => \A i \in Vertices : ret.val[i][i] = 0

\* ------------------------------------------------------------------ dfs: claims
\* The vertices a path of edges leads to from the vertices of S.
RECURSIVE Closure(_)
Closure(S) ==
    LET T == S \cup {e[2] : e \in {x \in Range(edges) : x[1] \in S}}
    IN  IF T = S THEN S ELSE Closure(T)

Reachable(root) == Closure({root})

\* The discovery order of the textbook recursive depth-first search that
\* takes the neighbours of a vertex in edge-insertion order.
RECURSIVE RecVisit(_, _, _)
RecVisit(order, u, i) ==
    IF i >= Len(AdjList(u)) THEN order
    ELSE LET v == At(AdjList(u), i)[2]
         IN  IF v \in Range(order)
             THEN RecVisit(order, u, i + 1)
             ELSE RecVisit(RecVisit(Append(order, v), v, 0), u, i + 1)

RecDfsOrder(root) == RecVisit(<<root>>, root, 0)

\* root followed by the vertices emitted so far
Traversal == <<arg>> \o [i \in 1..Len(emitted) |-> emitted[i][2]]

IsPrefix(s, t) == Len(s) <= Len(t) /\ s = SubSeq(t, 1, Len(s))

\* C2: root followed by the emitted vertices is, at every moment, a prefix of
\* the recursive depth-first discovery order and, once next() has returned
\* None, that whole order: exactly the vertices reachable from root, each
\* once; each emitted (e, v) has edges[e] = (p, v), p the stack top at the
\* discovery of v.
C2_DfsOrder ==
    pc = "iter" =>
        /\ IsPrefix(Traversal, RecDfsOrder(arg))
        /\ NoDup(Traversal)
        /\ \A i \in 1..Len(emitted) :
              At(edges, emitted[i][1]) = <<emitted[i][3], emitted[i][2]>>
        /\ IsNone(ret) =>
              /\ Traversal = RecDfsOrder(arg)
              /\ Range(Traversal) = Reachable(arg)

\* An exhausted traversal that backtracked (some vertex was discovered from a
\* vertex other than the one emitted just before it) and passed over an edge
\* to a vertex already visited.
C2_Witness ==
    /\ pc = "iter"
    /\ IsNone(ret)
    /\ Len(emitted) >= 2
    /\ \E i \in 2..Len(emitted) : emitted[i][3] # emitted[i - 1][2]
    /\ Len(scanned) > Len(emitted)

\* C8: the stack of a DfsIterator never holds more than num_v + 1 entries,
\* every vertex on it is marked visited, and none is on it twice.
C8_StackBound ==
    pc = "iter" =>
        /\ Len(stack) <= num_v + 1
        /\ \A i \in 1..Len(stack) : visited[stack[i]]
        /\ NoDup(stack)

\* The stack at its deepest: every vertex of the graph on it.
C8_Witness ==
    /\ pc = "iter"
    /\ num_v >= 3
    /\ Len(stack) = num_v
    /\ Len(emitted) = num_v - 1

\* C10: the traversal ends: every adjacency entry is taken at most once and
\* no cursor moves back, next() returns None exactly when it leaves the stack
\* empty, None is followed by None, and repeated calls reach None.
C10_Exhaustion ==
    /\ [](pc = "iter" => NoDup(scanned) /\ Len(scanned) <= Len(edges))
    /\ [][pc = "iter" => \A u \in Vertices : adj_iters'[u] >= adj_iters[u]]_vars
    /\ [](pc = "iter" /\ ret.tag # "NotCalled" => (IsNone(ret) <=> stack = <<>>))
    /\ [][pc = "iter" /\ IsNone(ret) => ret' = None /\ stack' = <<>>]_vars
    /\ (pc = "iter") ~> IsNone(ret)

\* An exhausted traversal in which a vertex became the stack top again after
\* a pop and its scan went on to discover another vertex.
C10_Witness ==
    /\ pc = "iter"
    /\ IsNone(ret)
    /\ stack = <<>>
    /\ \E i \in 2..Len(emitted) : emitted[i][3] # emitted[i - 1][2]
    /\ Len(scanned) = Len(edges)
    /\ Len(edges) >= 2

\* ------------------------------------------------------------------ the library
\* Every operation of the library over one graph of unit weights.
Init == GraphNew(DfsMaxV) /\ IdleIterator

Next ==
    \/ DfsAddEdge
    \/ Dfs
    \/ DfsNext
    \/ Dijkstra
    \/ FloydWarshall
    \/ EulerPath
    \/ MinSpanningTree

Spec == Init /\ [][Next]_vars

====
